---- MODULE Spec2Model ----
(***************************************************************************)
(* foam: the orchestration layer of src/foam/__init__.py.                  *)
(*   SpherizationDatabase  the level cache (nested dict mesh/branch/depth) *)
(*   ParallelSpherizer     the thread pool and the table of futures        *)
(*   SpherizationHelper    request (spherize_mesh) and resolve             *)
(*                         (get_spherization) with the level selection     *)
(* A Spherization is modelled by the fields the orchestration reads:       *)
(* spheres (a list, only its length is read), mean_error and worst_error   *)
(* (read by the comparison).  best_error is never read and is left out.    *)
(***************************************************************************)
EXTENDS Integers, Sequences, FiniteSets, TLC

(* ------------------------------ bounds --------------------------------- *)
\* largest error value of a Spherization (errors are 0..MaxErr)
MaxErr == 1
\* largest depth a caller asks for (depths are 0..MaxDepth)
MaxDepth == 2
\* largest number of levels one engine call yields
MaxLevels == 3
\* number of futures ever submitted to the executor in one run
MaxTasks == 2
\* max_workers of the ThreadPoolExecutor
Threads == 2
\* number of direct SpherizationDatabase.add calls in one run
MaxPuts == 3

(* ------------------------------ values --------------------------------- *)
Meshes == {"m1", "m2"}
Branches == {4, 8}
Depths == 0 .. MaxDepth
SphereLists == {<< >>, <<"p">>}
Spherizations ==
  [spheres : SphereLists, mean_error : 0 .. MaxErr, worst_error : 0 .. MaxErr]

\* the lists of up to n elements of S (a list is a function on 1..len)
ListsUpTo(S, n) == UNION {[1 .. k -> S] : k \in 0 .. n}

\* what one engine call (compute_spheres) can yield: one Spherization per
\* level.  Level selection reads only the spheres of a level, so the levels
\* drawn here vary in spheres and mean_error.
Levels == {s \in Spherizations : s.worst_error = 0}
AllOutputs == ListsUpTo(Levels, MaxLevels)

EmptyDict == [x \in {} |-> {}]

(* ------------------------- Spherization order -------------------------- *)
\* Spherization.__lt__ (foam/model.py): lexicographic on (mean_error, worst_error)
lt(a, b) ==
  \/ a.mean_error < b.mean_error
  \/ a.mean_error = b.mean_error /\ a.worst_error < b.worst_error

(* ------------------------ SpherizationDatabase ------------------------- *)
exists(d, mesh, branch, depth) ==
  /\ mesh \in DOMAIN d
  /\ branch \in DOMAIN d[mesh]
  /\ depth \in DOMAIN d[mesh][branch]

\* the caller has checked exists, or handles the KeyError
get(d, mesh, branch, depth) == d[mesh][branch][depth]

\* add with the comparison dropped: the last value written wins
add_last_wins(d, mesh, branch, depth, spherization) ==
  LET d1 == IF mesh \notin DOMAIN d THEN d @@ (mesh :> EmptyDict) ELSE d
      d2 == IF branch \notin DOMAIN d1[mesh]
            THEN [d1 EXCEPT ![mesh] = @ @@ (branch :> EmptyDict)]
            ELSE d1
  IN  IF depth \notin DOMAIN d2[mesh][branch]
      THEN [d2 EXCEPT ![mesh][branch] = @ @@ (depth :> spherization)]
      ELSE [d2 EXCEPT ![mesh][branch][depth] = spherization]

\* add with "<=" for "<": a value that ties with the stored one replaces it
add_on_tie(d, mesh, branch, depth, spherization) ==
  LET d1 == IF mesh \notin DOMAIN d THEN d @@ (mesh :> EmptyDict) ELSE d
      d2 == IF branch \notin DOMAIN d1[mesh]
            THEN [d1 EXCEPT ![mesh] = @ @@ (branch :> EmptyDict)]
            ELSE d1
  IN  IF depth \notin DOMAIN d2[mesh][branch]
      THEN [d2 EXCEPT ![mesh][branch] = @ @@ (depth :> spherization)]
      ELSE IF ~lt(d2[mesh][branch][depth], spherization)
           THEN [d2 EXCEPT ![mesh][branch][depth] = spherization]
           ELSE d2

add(d, mesh, branch, depth, spherization) ==
  LET d1 == IF mesh \notin DOMAIN d THEN d @@ (mesh :> EmptyDict) ELSE d
      d2 == IF branch \notin DOMAIN d1[mesh]
            THEN [d1 EXCEPT ![mesh] = @ @@ (branch :> EmptyDict)]
            ELSE d1
  IN  IF depth \notin DOMAIN d2[mesh][branch]
      THEN [d2 EXCEPT ![mesh][branch] = @ @@ (depth :> spherization)]
      ELSE IF lt(spherization, d2[mesh][branch][depth])
           THEN [d2 EXCEPT ![mesh][branch][depth] = spherization]
           ELSE d2

(* ------------------------- level selection ----------------------------- *)
Min(a, b) == IF a < b THEN a ELSE b
MaxOf(S) == CHOOSE x \in S : \A y \in S : y <= x

Ok(s) == [status |-> "ok", ret |-> <<s>>]
Raise(e) == [status |-> e, ret |-> << >>]

\* levels is a Python list: its index l is levels[l + 1] here.
\* The loop "for level in range(max_depth, -1, -1)" from level downwards.
RECURSIVE select_level_loop(_, _, _)
select_level_loop(levels, level, max_depth) ==
  IF level < 0 THEN Ok(levels[max_depth + 1])
  ELSE IF Len(levels[level + 1].spheres) > 0 THEN Ok(levels[level + 1])
  ELSE select_level_loop(levels, level - 1, max_depth)

\* _select_level with the requested depth ignored: the walk starts at the
\* finest level computed
_select_level_from_top(levels, depth) ==
  IF Len(levels) = 0 THEN Raise("EmptyResult")
  ELSE select_level_loop(levels, Len(levels) - 1, Len(levels) - 1)

\* _select_level that also raises when no level has spheres
_select_level_strict(levels, depth) ==
  IF \A l \in 1 .. Len(levels) : Len(levels[l].spheres) = 0 THEN Raise("EmptyResult")
  ELSE LET max_depth == Min(depth, Len(levels) - 1)
       IN  select_level_loop(levels, max_depth, max_depth)

_select_level(levels, depth) ==
  IF Len(levels) = 0 THEN Raise("EmptyResult")
  ELSE LET max_depth == Min(depth, Len(levels) - 1)
       IN  select_level_loop(levels, max_depth, max_depth)

\* The loop "for level in range(depth, -1, -1)" from level downwards; the
\* final db.get raises KeyError (NotFound) when the exact entry is absent.
RECURSIVE select_cached_level_loop(_, _, _, _, _)
select_cached_level_loop(d, name, branch, level, depth) ==
  IF level < 0
  THEN IF exists(d, name, branch, depth) THEN Ok(get(d, name, branch, depth))
       ELSE Raise("NotFound")
  ELSE IF /\ exists(d, name, branch, level)
          /\ Len(get(d, name, branch, level).spheres) > 0
       THEN Ok(get(d, name, branch, level))
       ELSE select_cached_level_loop(d, name, branch, level - 1, depth)

\* _select_cached_level without the walk: the entry of the exact level
_select_cached_level_exact(d, name, branch, depth) ==
  IF exists(d, name, branch, depth) THEN Ok(get(d, name, branch, depth))
  ELSE Raise("NotFound")

\* _select_cached_level with the walk started at the finest cached level
\* instead of the requested one
_select_cached_level_finest(d, name, branch, depth) ==
  select_cached_level_loop(d, name, branch, MaxOf(DOMAIN d[name][branch]), depth)

_select_cached_level(d, name, branch, depth) ==
  select_cached_level_loop(d, name, branch, depth, depth)

(* ------------------------------ state ---------------------------------- *)
VARIABLES
  db,       \* SpherizationDatabase.db
  waiting,  \* ParallelSpherizer.waiting: name -> index of its future
  futures,  \* every future the executor was given, in submission order
  op,       \* the last call made and what it returned or raised
  puts,     \* history: the Spherizations given to add, per key
  adders,   \* the threads inside SpherizationDatabase.add: line reached, arguments
  task,     \* one run of the task body spherize_mesh: line reached, locals, calls made
  waiter,   \* a thread inside ParallelSpherizer.wait: the futures it waits for
  process   \* the interpreter's life and the file at SpherizationDatabase.path

\* the variables of the executions followed line by line
stepVars == <<adders, task, waiter, process>>
vars == <<db, waiting, futures, op, puts, stepVars>>

NoOp == [kind |-> "none", name |-> "", branch |-> 0, depth |-> 0, cache |-> FALSE,
         path |-> "", status |-> "", ret |-> << >>, fut |-> 0]
\* a step of a pool thread, not a call of the control thread
WorkerOp == [NoOp EXCEPT !.kind = "worker"]

\* callers' threads that can be inside SpherizationDatabase.add at once
MaxAdders == 2
Adders == 1 .. MaxAdders
\* a thread outside add
Outside == [pc |-> "out", key |-> << >>, spherization |-> << >>]

\* the task body before it is called.  valid: what the suitability check
\* says of loaded_mesh; calls: the collaborators invoked so far, in order,
\* each with its outcome; spheres: what the last engine call returned
NoTask == [pc |-> "out", kind |-> "", depth |-> 0, valid |-> FALSE, calls |-> << >>,
           spheres |-> << >>, status |-> "", result |-> << >>]

\* the program is running and has written nothing; written counts the
\* writes of the file, file is its content and loaded what a reload of it
\* has parsed
Started == [phase |-> "running", exit |-> "", written |-> 0, file |-> << >>,
            loaded |-> << >>]

\* no thread is inside wait
NoWait == [pc |-> "out", fs |-> {}]

Init ==
  /\ db = EmptyDict
  /\ waiting = EmptyDict
  /\ futures = << >>
  /\ op = NoOp
  /\ puts = EmptyDict
  /\ adders = [t \in Adders |-> Outside]
  /\ task = NoTask
  /\ waiter = NoWait
  /\ process = Started

\* history of add: the set of Spherizations given for each key
record_put(h, key, s) ==
  IF key \in DOMAIN h THEN [h EXCEPT ![key] = @ \cup {s}] ELSE h @@ (key :> {s})

TotalPuts == LET RECURSIVE Sum(_)
                 Sum(K) == IF K = {} THEN 0
                           ELSE LET k == CHOOSE x \in K : TRUE
                                IN  Cardinality(puts[k]) + Sum(K \ {k})
             IN  Sum(DOMAIN puts)

(* ------------------------- ParallelSpherizer --------------------------- *)
\* the work item: the task's name and the branch of its spherization_kwargs
\* (the other arguments do not reach the orchestration), its state in the
\* pool and, once done, the levels it returned
Future(name, branch) ==
  [name |-> name, branch |-> branch, state |-> "queued", result |-> << >>]

\* submit that keeps the handle a name already has in the table
ParallelSpherizer_spherize_mesh_keep(name, branch) ==
  /\ futures' = Append(futures, Future(name, branch))
  /\ waiting' = IF name \in DOMAIN waiting
                THEN waiting
                ELSE waiting @@ (name :> Len(futures) + 1)

\* executor.submit, then self.waiting[name] = future
ParallelSpherizer_spherize_mesh(name, branch) ==
  /\ futures' = Append(futures, Future(name, branch))
  /\ waiting' = IF name \in DOMAIN waiting
                THEN [waiting EXCEPT ![name] = Len(futures) + 1]
                ELSE waiting @@ (name :> Len(futures) + 1)

Running == {i \in 1 .. Len(futures) : futures[i].state = "running"}

\* a pool that starts a queued work item whatever the number running
Start_unbounded(i) ==
  /\ futures[i].state = "queued"
  /\ \A j \in 1 .. i - 1 : futures[j].state # "queued"
  /\ futures' = [futures EXCEPT ![i].state = "running"]
  /\ op' = WorkerOp
  /\ UNCHANGED <<db, waiting, puts, stepVars>>

\* a pool whose threads take one work item each and then stop
Start_once(i) ==
  /\ i <= Threads
  /\ futures[i].state = "queued"
  /\ \A j \in 1 .. i - 1 : futures[j].state # "queued"
  /\ Cardinality(Running) < Threads
  /\ futures' = [futures EXCEPT ![i].state = "running"]
  /\ op' = WorkerOp
  /\ UNCHANGED <<db, waiting, puts, stepVars>>

\* a pool thread takes the oldest queued work item
Start(i) ==
  /\ futures[i].state = "queued"
  /\ \A j \in 1 .. i - 1 : futures[j].state # "queued"
  /\ Cardinality(Running) < Threads
  /\ futures' = [futures EXCEPT ![i].state = "running"]
  /\ op' = WorkerOp
  /\ UNCHANGED <<db, waiting, puts, stepVars>>

\* the task returns the levels the engine computed
Finish(i, levels) ==
  /\ futures[i].state = "running"
  /\ futures' = [futures EXCEPT ![i].state = "done", ![i].result = levels]
  /\ op' = WorkerOp
  /\ UNCHANGED <<db, waiting, puts, stepVars>>

\* the task raises RuntimeError("Failed to process loaded_mesh.")
Fail(i) ==
  /\ futures[i].state = "running"
  /\ futures' = [futures EXCEPT ![i].state = "failed"]
  /\ op' = WorkerOp
  /\ UNCHANGED <<db, waiting, puts, stepVars>>

\* futures that may wait in the executor's queue beyond those running
MaxQueued == 1

\* submit: ParallelSpherizer.spherize_mesh called as such; executor.submit
\* puts the work item in an unbounded queue and returns
submit(name, branch) ==
  /\ Len(futures) < Threads + MaxQueued
  /\ ParallelSpherizer_spherize_mesh(name, branch)
  /\ op' = [NoOp EXCEPT !.kind = "submit", !.name = name, !.branch = branch,
                        !.fut = Len(futures) + 1]
  /\ UNCHANGED <<db, puts, stepVars>>

\* result with the task's exception swallowed: a failed future yields an
\* empty list
ParallelSpherizer_get_quiet(name) ==
  /\ IF name \notin DOMAIN waiting
     THEN op' = [NoOp EXCEPT !.kind = "result", !.name = name, !.status = "UnknownTask"]
     ELSE LET f == futures[waiting[name]]
          IN  /\ f.state \in {"done", "failed"}
              /\ op' = [NoOp EXCEPT !.kind = "result", !.name = name,
                                    !.fut = waiting[name], !.ret = f.result,
                                    !.status = "ok"]
  /\ UNCHANGED <<db, waiting, futures, puts, stepVars>>

\* result that does not block: the future's result field is read whatever
\* its state
ParallelSpherizer_get_nowait(name) ==
  /\ IF name \notin DOMAIN waiting
     THEN op' = [NoOp EXCEPT !.kind = "result", !.name = name, !.status = "UnknownTask"]
     ELSE LET f == futures[waiting[name]]
          IN  op' = [NoOp EXCEPT !.kind = "result", !.name = name,
                                 !.fut = waiting[name], !.ret = f.result,
                                 !.status = IF f.state = "failed"
                                            THEN "ComputationFailure" ELSE "ok"]
  /\ UNCHANGED <<db, waiting, futures, puts, stepVars>>

\* result: self.waiting[name].result() raises KeyError for a name not in
\* the table, blocks until the future is complete, then returns what the
\* task returned or raises what it raised
ParallelSpherizer_get(name) ==
  /\ IF name \notin DOMAIN waiting
     THEN op' = [NoOp EXCEPT !.kind = "result", !.name = name, !.status = "UnknownTask"]
     ELSE LET f == futures[waiting[name]]
          IN  /\ f.state \in {"done", "failed"}
              /\ op' = [NoOp EXCEPT !.kind = "result", !.name = name,
                                    !.fut = waiting[name], !.ret = f.result,
                                    !.status = IF f.state = "failed"
                                               THEN "ComputationFailure" ELSE "ok"]
  /\ UNCHANGED <<db, waiting, futures, puts, stepVars>>

\* wait returning at once, whatever the state of the futures
wait_return_early ==
  /\ waiter.pc = "waiting"
  /\ waiter' = NoWait
  /\ op' = [NoOp EXCEPT !.kind = "await", !.status = "ok"]
  /\ UNCHANGED <<db, waiting, futures, puts, adders, task, process>>

\* await_all: future_wait(self.waiting.values()) copies the futures of the
\* table into a set when it is called ...
wait_call ==
  /\ waiter.pc = "out"
  /\ waiter' = [pc |-> "waiting", fs |-> {waiting[n] : n \in DOMAIN waiting}]
  /\ op' = [NoOp EXCEPT !.kind = "await_call"]
  /\ UNCHANGED <<db, waiting, futures, puts, adders, task, process>>

\* ... and returns when each of them is complete (ALL_COMPLETED, no timeout);
\* it does not look at their outcomes
wait_return ==
  /\ waiter.pc = "waiting"
  /\ \A i \in waiter.fs : futures[i].state \in {"done", "failed"}
  /\ waiter' = NoWait
  /\ op' = [NoOp EXCEPT !.kind = "await", !.status = "ok"]
  /\ UNCHANGED <<db, waiting, futures, puts, adders, task, process>>

(* ------------------------- SpherizationHelper -------------------------- *)
\* request without the look into the cache: every call submits
spherize_mesh_always(name, branch, depth) ==
  /\ Len(futures) < MaxTasks
  /\ ParallelSpherizer_spherize_mesh(name, branch)
  /\ op' = [NoOp EXCEPT !.kind = "request", !.name = name, !.branch = branch,
                        !.depth = depth, !.fut = Len(futures) + 1]
  /\ UNCHANGED <<db, puts, stepVars>>

\* request
spherize_mesh(name, branch, depth) ==
  /\ IF ~exists(db, name, branch, depth)
     THEN /\ Len(futures) < MaxTasks
          /\ ParallelSpherizer_spherize_mesh(name, branch)
          /\ op' = [NoOp EXCEPT !.kind = "request", !.name = name, !.branch = branch,
                                !.depth = depth, !.fut = Len(futures) + 1]
     ELSE /\ UNCHANGED <<waiting, futures>>
          /\ op' = [NoOp EXCEPT !.kind = "request", !.name = name, !.branch = branch,
                                !.depth = depth]
  /\ UNCHANGED <<db, puts, stepVars>>

\* for level, sphere_level in enumerate(spherizations): self.db.add(...)
\* only the finest computed level is cached
add_levels_last(d, name, branch, levels, n) ==
  IF n = 0 THEN d ELSE add(d, name, branch, n - 1, levels[n])

RECURSIVE add_levels(_, _, _, _, _)
add_levels(d, name, branch, levels, n) ==
  IF n = 0 THEN d
  ELSE add(add_levels(d, name, branch, levels, n - 1), name, branch, n - 1, levels[n])

RECURSIVE record_levels(_, _, _, _, _)
record_levels(h, name, branch, levels, n) ==
  IF n = 0 THEN h
  ELSE record_put(record_levels(h, name, branch, levels, n - 1),
                  <<name, branch, n - 1>>, levels[n])

ResolveOp(name, depth, branch, cache, path, r) ==
  [NoOp EXCEPT !.kind = "resolve", !.name = name, !.branch = branch, !.depth = depth,
               !.cache = cache, !.path = path, !.status = r.status, !.ret = r.ret]

\* resolve with the cache flag ignored: what a task returned is always stored
get_spherization_store(name, depth, branch, cache) ==
  /\ IF ~exists(db, name, branch, depth)
     THEN IF name \notin DOMAIN waiting
          THEN /\ op' = ResolveOp(name, depth, branch, cache, "dispatch",
                                  Raise("UnknownTask"))
               /\ UNCHANGED <<db, puts>>
          ELSE LET f == futures[waiting[name]]
               IN  /\ f.state \in {"done", "failed"}
                   /\ IF f.state = "failed"
                      THEN /\ op' = ResolveOp(name, depth, branch, cache, "dispatch",
                                              Raise("ComputationFailure"))
                           /\ UNCHANGED <<db, puts>>
                      ELSE /\ db' = add_levels(db, name, branch, f.result, Len(f.result))
                           /\ puts' = record_levels(puts, name, branch, f.result,
                                                    Len(f.result))
                           /\ op' = ResolveOp(name, depth, branch, cache, "dispatch",
                                              _select_level(f.result, depth))
     ELSE /\ op' = ResolveOp(name, depth, branch, cache, "cache",
                             _select_cached_level(db, name, branch, depth))
          /\ UNCHANGED <<db, puts>>
  /\ UNCHANGED <<waiting, futures, stepVars>>

\* resolve; self.ps.get(name) raises KeyError for an unknown name, blocks
\* until the future is complete, and re-raises what the task raised
get_spherization(name, depth, branch, cache) ==
  /\ IF ~exists(db, name, branch, depth)
     THEN IF name \notin DOMAIN waiting
          THEN /\ op' = ResolveOp(name, depth, branch, cache, "dispatch",
                                  Raise("UnknownTask"))
               /\ UNCHANGED <<db, puts>>
          ELSE LET f == futures[waiting[name]]
               IN  /\ f.state \in {"done", "failed"}
                   /\ IF f.state = "failed"
                      THEN /\ op' = ResolveOp(name, depth, branch, cache, "dispatch",
                                              Raise("ComputationFailure"))
                           /\ UNCHANGED <<db, puts>>
                      ELSE /\ db' = IF cache
                                    THEN add_levels(db, name, branch, f.result,
                                                    Len(f.result))
                                    ELSE db
                           /\ puts' = IF cache
                                      THEN record_levels(puts, name, branch, f.result,
                                                         Len(f.result))
                                      ELSE puts
                           /\ op' = ResolveOp(name, depth, branch, cache, "dispatch",
                                              _select_level(f.result, depth))
     ELSE /\ op' = ResolveOp(name, depth, branch, cache, "cache",
                             _select_cached_level(db, name, branch, depth))
          /\ UNCHANGED <<db, puts>>
  /\ UNCHANGED <<waiting, futures, stepVars>>

(* ------------------- SpherizationDatabase, called directly ------------- *)
Put(mesh, branch, depth, spherization) ==
  /\ TotalPuts < MaxPuts
  /\ db' = add(db, mesh, branch, depth, spherization)
  /\ puts' = record_put(puts, <<mesh, branch, depth>>, spherization)
  /\ op' = [NoOp EXCEPT !.kind = "put", !.name = mesh, !.branch = branch,
                        !.depth = depth, !.ret = <<spherization>>]
  /\ UNCHANGED <<waiting, futures, stepVars>>

\* contains and get called directly: a membership test and a subscript on
\* plain dicts, which write nothing
contains(mesh, branch, depth) ==
  /\ op' = [NoOp EXCEPT !.kind = "contains", !.name = mesh, !.branch = branch,
                        !.depth = depth,
                        !.status = IF exists(db, mesh, branch, depth)
                                   THEN "True" ELSE "False"]
  /\ UNCHANGED <<db, waiting, futures, puts, stepVars>>

db_get(mesh, branch, depth) ==
  /\ op' = IF exists(db, mesh, branch, depth)
           THEN [NoOp EXCEPT !.kind = "get", !.name = mesh, !.branch = branch,
                             !.depth = depth, !.status = "ok",
                             !.ret = <<get(db, mesh, branch, depth)>>]
           ELSE [NoOp EXCEPT !.kind = "get", !.name = mesh, !.branch = branch,
                             !.depth = depth, !.status = "NotFound"]
  /\ UNCHANGED <<db, waiting, futures, puts, stepVars>>

(* ------------- SpherizationDatabase.add, line by line ------------------ *)
\* d[k] = v on a Python dict
setitem(d, k, v) == [x \in DOMAIN d \cup {k} |-> IF x = k THEN v ELSE d[x]]

\* a thread calls add(mesh, branch, depth, spherization): no lock is taken
add_call(t, mesh, branch, depth, spherization) ==
  /\ adders[t].pc = "out"
  /\ TotalPuts < MaxPuts
  /\ adders' = [adders EXCEPT ![t] = [pc |-> "l163", key |-> <<mesh, branch, depth>>,
                                      spherization |-> spherization]]
  /\ puts' = record_put(puts, <<mesh, branch, depth>>, spherization)
  /\ op' = [NoOp EXCEPT !.kind = "put", !.name = mesh, !.branch = branch,
                        !.depth = depth, !.ret = <<spherization>>]
  /\ UNCHANGED <<db, waiting, futures, task, waiter, process>>

\* one condition or one assignment of add, run by thread t; a subscript on
\* a dict another thread has replaced raises KeyError
add_step(t) ==
  LET a == adders[t]
      mesh == a.key[1]
      branch == a.key[2]
      depth == a.key[3]
      goto(l) == adders' = [adders EXCEPT ![t].pc = l]
      return == adders' = [adders EXCEPT ![t] = Outside]
      reachable == mesh \in DOMAIN db /\ branch \in DOMAIN db[mesh]
  IN  /\ a.pc \notin {"out"}
      /\ CASE a.pc = "l163" ->
                /\ goto(IF mesh \notin DOMAIN db THEN "l164" ELSE "l166")
                /\ UNCHANGED db
           [] a.pc = "l164" ->
                /\ db' = setitem(db, mesh, EmptyDict)
                /\ goto("l166")
           [] a.pc = "l166" ->
                /\ goto(IF branch \notin DOMAIN db[mesh] THEN "l167" ELSE "l169")
                /\ UNCHANGED db
           [] a.pc = "l167" ->
                /\ db' = [db EXCEPT ![mesh] = setitem(@, branch, EmptyDict)]
                /\ goto("l169")
           [] a.pc = "l169" ->
                /\ IF ~reachable THEN goto("KeyError")
                   ELSE goto(IF depth \notin DOMAIN db[mesh][branch]
                             THEN "l170" ELSE "l173")
                /\ UNCHANGED db
           [] a.pc = "l170" ->
                IF ~reachable THEN goto("KeyError") /\ UNCHANGED db
                ELSE /\ db' = [db EXCEPT ![mesh][branch] =
                                            setitem(@, depth, a.spherization)]
                     /\ return
           [] a.pc = "l173" ->
                /\ IF ~exists(db, mesh, branch, depth) THEN goto("KeyError")
                   ELSE IF lt(a.spherization, db[mesh][branch][depth])
                        THEN goto("l174") ELSE return
                /\ UNCHANGED db
           [] a.pc = "l174" ->
                IF ~reachable THEN goto("KeyError") /\ UNCHANGED db
                ELSE /\ db' = [db EXCEPT ![mesh][branch] =
                                            setitem(@, depth, a.spherization)]
                     /\ return
           [] a.pc = "KeyError" ->
                /\ return
                /\ UNCHANGED db
      /\ op' = WorkerOp
      /\ UNCHANGED <<waiting, futures, puts, task, waiter, process>>

(* ------------------- the task body spherize_mesh, line by line --------- *)
\* the arguments the pool thread calls the task body with: mesh is a Path, a
\* loaded Trimesh or a trimesh Sphere primitive
MeshKinds == {"path", "mesh", "sphere"}
\* the level a Sphere primitive yields without the engine
UnitLevel == [spheres |-> <<"p">>, mean_error |-> 0, worst_error |-> 0]

\* check_valid_for_spherization(method, loaded_mesh): a predicate of the mesh
check_valid_for_spherization(t) == t.valid

Called(t, name, outcome) == Append(t.calls, <<name, outcome>>)
TaskEnd(t, status, result) == [t EXCEPT !.pc = "end", !.status = status, !.result = result]
task_frame ==
  op' = WorkerOp /\ UNCHANGED <<db, waiting, futures, puts, adders, waiter, process>>

\* the second check skipped over: the decomposition pass never runs
after_second_check_skip(valid) == "l81"

\* if not check_valid_for_spherization(...): the line run next
after_first_check(valid) == IF ~valid THEN "l74" ELSE "l76"
after_second_check(valid) == IF ~valid THEN "l77" ELSE "l81"

task_call(kind, depth, valid) ==
  /\ task.pc \in {"out", "end"}
  /\ task' = [NoTask EXCEPT !.pc = "l37", !.kind = kind, !.depth = depth,
                            !.valid = valid]
  /\ task_frame

\* lines 37-44: load_mesh_file raises RuntimeError("Failed to load mesh!")
task_load(loaded) ==
  /\ task.pc = "l37"
  /\ task' = IF task.kind = "path" /\ ~loaded
             THEN TaskEnd(task, "LoadFailure", << >>)
             ELSE [task EXCEPT !.pc = "l46"]
  /\ task_frame

\* lines 46-56: a Sphere primitive returns depth + 1 copies of one level
\* lines 59-71: the transform of loaded_mesh
task_primitive ==
  /\ task.pc = "l46"
  /\ task' = IF task.kind = "sphere"
             THEN TaskEnd(task, "ok", [l \in 1 .. task.depth + 1 |-> UnitLevel])
             ELSE [task EXCEPT !.pc = "l73"]
  /\ task_frame

\* line 73
task_first_check ==
  /\ task.pc = "l73"
  /\ LET valid == check_valid_for_spherization(task)
     IN  task' = [task EXCEPT !.pc = after_first_check(valid),
                              !.calls = Called(task, "check", valid)]
  /\ task_frame

\* line 74: smooth_manifold outside any handler; what it raises leaves the task
task_first_repair(raises, valid) ==
  /\ task.pc = "l74"
  /\ task' = IF raises
             THEN TaskEnd([task EXCEPT !.calls = Called(task, "repair", "raise")],
                          "PassError", << >>)
             ELSE [task EXCEPT !.pc = "l76", !.valid = valid,
                               !.calls = Called(task, "repair", "ok")]
  /\ task_frame

\* line 76
task_second_check ==
  /\ task.pc = "l76"
  /\ LET valid == check_valid_for_spherization(task)
     IN  task' = [task EXCEPT !.pc = after_second_check(valid),
                              !.calls = Called(task, "check", valid)]
  /\ task_frame

\* lines 77-78: convex_decomposition and concatenate, outside any handler
task_decomposition(raises, valid) ==
  /\ task.pc = "l77"
  /\ task' = IF raises
             THEN TaskEnd([task EXCEPT !.calls = Called(task, "decomposition", "raise")],
                          "PassError", << >>)
             ELSE [task EXCEPT !.pc = "l81", !.valid = valid,
                               !.calls = Called(task, "decomposition", "ok")]
  /\ task_frame

\* lines 80-83: compute_spheres in the try; any exception enters the handler
task_first_engine(raises, levels) ==
  /\ task.pc = "l81"
  /\ task' = IF raises
             THEN [task EXCEPT !.pc = "l85", !.calls = Called(task, "engine", "raise")]
             ELSE [task EXCEPT !.pc = "l91", !.spheres = levels,
                               !.calls = Called(task, "engine", "ok")]
  /\ task_frame

\* line 85, in the inner try; lines 88-89 turn any exception into
\* RuntimeError("Failed to process loaded_mesh.")
task_second_repair(raises, valid) ==
  /\ task.pc = "l85"
  /\ task' = IF raises
             THEN TaskEnd([task EXCEPT !.calls = Called(task, "repair", "raise")],
                          "ComputationFailure", << >>)
             ELSE [task EXCEPT !.pc = "l86", !.valid = valid,
                               !.calls = Called(task, "repair", "ok")]
  /\ task_frame

\* line 86, in the inner try
task_second_engine(raises, levels) ==
  /\ task.pc = "l86"
  /\ task' = IF raises
             THEN TaskEnd([task EXCEPT !.calls = Called(task, "engine", "raise")],
                          "ComputationFailure", << >>)
             ELSE [task EXCEPT !.pc = "l91", !.spheres = levels,
                               !.calls = Called(task, "engine", "ok")]
  /\ task_frame

\* lines 91-94: every level is moved back by the centring offset (positions
\* are not part of a level here) and the list is returned
task_return ==
  /\ task.pc = "l91"
  /\ task' = TaskEnd(task, "ok", task.spheres)
  /\ task_frame

(* ---------------- SpherizationDatabase.__del__ and the file ------------ *)
\* a JSON text is kept as its characters; json.dumps writes an int key of a
\* dict as its decimal digits
DigitChars == <<"0", "1", "2", "3", "4", "5", "6", "7", "8", "9">>

RECURSIVE digits(_)
digits(n) ==
  IF n < 10 THEN <<DigitChars[n + 1]>>
  ELSE digits(n \div 10) \o <<DigitChars[(n % 10) + 1]>>

\* str(n) of an int
str(n) == IF n < 0 THEN <<"-">> \o digits(0 - n) ELSE digits(n)

DigitValue(c) == (CHOOSE i \in 1 .. 10 : DigitChars[i] = c) - 1

\* the parse that reads the units digit only
number_units(text) ==
  IF Len(text) = 0 THEN 0 ELSE DigitValue(text[Len(text)])

RECURSIVE number(_)
number(text) ==
  IF Len(text) = 0 THEN 0
  ELSE 10 * number(SubSeq(text, 1, Len(text) - 1)) + DigitValue(text[Len(text)])

\* int(text) of a key read back
int(text) == IF text[1] = "-" THEN 0 - number(Tail(text)) ELSE number(text)

\* SphereEncoder / SphereDecoder (foam/model.py): a Spherization as a JSON
\* object and back
SphereEncoder(s) ==
  [primitives |-> s.spheres, mean_error |-> s.mean_error, worst_error |-> s.worst_error]
SphereDecoder(o) ==
  [spheres |-> o.primitives, mean_error |-> o.mean_error, worst_error |-> o.worst_error]

\* jsdumps(self.db, indent = 4, cls = SphereEncoder): the mesh keys are
\* strings already, the branch and depth keys are written as text
jsdumps(d) ==
  [mk \in DOMAIN d |->
    [bk \in {str(b) : b \in DOMAIN d[mk]} |->
      LET b == CHOOSE b \in DOMAIN d[mk] : str(b) = bk
      IN  [dk \in {str(k) : k \in DOMAIN d[mk][b]} |->
            LET k == CHOOSE k \in DOMAIN d[mk][b] : str(k) = dk
            IN  SphereEncoder(d[mk][b][k])]]]

\* jsload(json_file, cls = SphereDecoder), then the comprehension with
\* int(bk) and int(dk) (lines 142-153, commented out in __init__)
jsload(text) ==
  [mk \in DOMAIN text |->
    [b \in {int(bk) : bk \in DOMAIN text[mk]} |->
      LET bk == CHOOSE bk \in DOMAIN text[mk] : int(bk) = b
      IN  [k \in {int(dk) : dk \in DOMAIN text[mk][bk]} |->
            LET dk == CHOOSE dk \in DOMAIN text[mk][bk] : int(dk) = k
            IN  SphereDecoder(text[mk][bk][dk])]]]

\* how the program ends: main returns, an exception leaves main, or the
\* process is killed
ExitPaths == {"return", "error", "cancel"}
life_frame == UNCHANGED <<db, waiting, futures, puts, adders, task, waiter>>

exit(path) ==
  /\ process.phase = "running"
  /\ process' = [process EXCEPT !.phase = "exiting", !.exit = path]
  /\ op' = [NoOp EXCEPT !.kind = "exit", !.path = path]
  /\ life_frame

\* __del__, run when the last reference to the database goes: the file is
\* opened for writing and the whole mapping written.  After an exception the
\* object lives until the interpreter shuts down, where open may be gone
\* already and __del__ raises before it writes.
__del__(opened) ==
  /\ process.phase = "exiting"
  /\ process.exit \in {"return", "error"}
  /\ process.exit = "return" => opened
  /\ process' = IF opened
                THEN [process EXCEPT !.phase = "exited", !.file = jsdumps(db),
                                     !.written = @ + 1]
                ELSE [process EXCEPT !.phase = "exited"]
  /\ op' = [NoOp EXCEPT !.kind = "flush", !.status = IF opened THEN "ok" ELSE "NameError"]
  /\ life_frame

\* a killed process runs no finalizer
killed ==
  /\ process.phase = "exiting"
  /\ process.exit = "cancel"
  /\ process' = [process EXCEPT !.phase = "exited"]
  /\ op' = [NoOp EXCEPT !.kind = "killed"]
  /\ life_frame

\* a later run reads the file back
reload ==
  /\ process.phase = "exited"
  /\ process.written > 0
  /\ process.loaded = << >>
  /\ process' = [process EXCEPT !.loaded = jsload(process.file)]
  /\ op' = [NoOp EXCEPT !.kind = "reload"]
  /\ life_frame

(* --------------------------- specifications ---------------------------- *)
\* the levels the engine yields in Spec
E0 == [spheres |-> << >>, mean_error |-> 1, worst_error |-> 1]
P1 == [spheres |-> <<"p">>, mean_error |-> 1, worst_error |-> 0]
P0 == [spheres |-> <<"p">>, mean_error |-> 0, worst_error |-> 1]
EngineOutputs == {<< >>, <<E0>>, <<E0, P1>>, <<P0, E0, P1>>}

\* the (name, branch) pairs the callers of Spec use
Calls == {<<"m1", 4>>, <<"m1", 8>>}

Next ==
  \/ \E c \in Calls, depth \in Depths : spherize_mesh(c[1], c[2], depth)
  \/ \E c \in Calls, depth \in Depths, cache \in BOOLEAN :
       get_spherization(c[1], depth, c[2], cache)
  \/ \E i \in 1 .. Len(futures) : Start(i)
  \/ \E i \in 1 .. Len(futures), levels \in EngineOutputs : Finish(i, levels)
  \/ \E i \in 1 .. Len(futures) : Fail(i)

Spec == Init /\ [][Next]_vars

\* The cache alone: add called directly, on any level of one shape.
PutKeys == {<<"m1", 8>>}
\* every error pair on a non-empty Spherization, and an empty one that ties
\* with the best of them
CacheValues ==
  {s \in Spherizations : Len(s.spheres) > 0 \/ (s.mean_error = 0 /\ s.worst_error = 0)}
NextCache ==
  \E c \in PutKeys, depth \in Depths, s \in CacheValues : Put(c[1], c[2], depth, s)

SpecCache == Init /\ [][NextCache]_vars

\* The cache filled directly, with gaps between levels, then read by resolve.
NextLookup ==
  \/ \E c \in PutKeys, depth \in Depths, s \in Levels : Put(c[1], c[2], depth, s)
  \/ \E c \in PutKeys, depth \in Depths, cache \in BOOLEAN :
       get_spherization(c[1], depth, c[2], cache)

SpecLookup == Init /\ [][NextLookup]_vars

\* One shape, one task, any engine output: the two paths of resolve.
NextResolve ==
  \/ \E depth \in Depths : Len(futures) = 0 /\ spherize_mesh("m1", 8, depth)
  \/ \E depth \in Depths, cache \in BOOLEAN : get_spherization("m1", depth, 8, cache)
  \/ \E i \in 1 .. Len(futures) : Start(i)
  \/ \E i \in 1 .. Len(futures), levels \in AllOutputs : Finish(i, levels)

SpecResolve == Init /\ [][NextResolve]_vars

\* Threads of the caller inside add at once, all on one key.
AddKey == <<"m1", 8, 0>>
NextThreads ==
  \/ \E t \in Adders, s \in CacheValues :
       add_call(t, AddKey[1], AddKey[2], AddKey[3], s)
  \/ \E t \in Adders : add_step(t)

SpecThreads == Init /\ [][NextThreads]_vars

\* One run of the task body at a time, every outcome of every collaborator.
NextTask ==
  \/ \E kind \in MeshKinds, depth \in Depths, valid \in BOOLEAN :
       task_call(kind, depth, valid)
  \/ \E loaded \in BOOLEAN : task_load(loaded)
  \/ task_primitive
  \/ task_first_check
  \/ \E raises, valid \in BOOLEAN : task_first_repair(raises, valid)
  \/ task_second_check
  \/ \E raises, valid \in BOOLEAN : task_decomposition(raises, valid)
  \/ \E raises \in BOOLEAN, levels \in EngineOutputs : task_first_engine(raises, levels)
  \/ \E raises, valid \in BOOLEAN : task_second_repair(raises, valid)
  \/ \E raises \in BOOLEAN, levels \in EngineOutputs : task_second_engine(raises, levels)
  \/ task_return

SpecTask == Init /\ [][NextTask]_vars

\* Two shapes with one task each at most: one may fail, the other not.
Shapes == {<<"m1", 8>>, <<"m2", 8>>}
NextShapes ==
  \/ \E c \in Shapes, depth \in Depths :
       /\ \A i \in 1 .. Len(futures) : futures[i].name # c[1]
       /\ spherize_mesh(c[1], c[2], depth)
  \/ \E c \in Shapes, depth \in Depths, cache \in BOOLEAN :
       get_spherization(c[1], depth, c[2], cache)
  \/ \E c \in Shapes : ParallelSpherizer_get(c[1])
  \/ \E i \in 1 .. Len(futures) : Start(i)
  \/ \E i \in 1 .. Len(futures), levels \in EngineOutputs : Finish(i, levels)
  \/ \E i \in 1 .. Len(futures) : Fail(i)

SpecShapes == Init /\ [][NextShapes]_vars

\* The pool alone: the cache stays empty, so every request submits; a
\* name can be submitted again while its earlier future is still tracked,
\* also by another thread while one thread is inside wait.
PoolNames == {"m1", "m2"}
NextPool ==
  \/ \E name \in PoolNames : spherize_mesh(name, 8, 0)
  \/ \E name \in PoolNames : ParallelSpherizer_get(name)
  \/ wait_call
  \/ wait_return
  \/ \E i \in 1 .. Len(futures) : Start(i)
  \/ \E i \in 1 .. Len(futures), levels \in EngineOutputs : Finish(i, levels)
  \/ \E i \in 1 .. Len(futures) : Fail(i)

SpecPool == Init /\ [][NextPool]_vars

\* One run of the program from start to exit: the cache is filled, the
\* program ends on one of its exit paths, the file is read back.
StoreKeys == {<<"m1", 4>>, <<"m1", 8>>, <<"m2", 16>>}
StoreValues == {P0, P1}
NextLife ==
  \/ \E c \in StoreKeys, depth \in Depths, s \in StoreValues :
       process.phase = "running" /\ Put(c[1], c[2], depth, s)
  \/ \E path \in ExitPaths : exit(path)
  \/ \E opened \in BOOLEAN : __del__(opened)
  \/ killed
  \/ reload

SpecLife == Init /\ [][NextLife]_vars

\* More work than workers: submissions beyond the pool's size, one engine
\* output.
NextQueue ==
  \/ \E name \in PoolNames : submit(name, 8)
  \/ \E name \in PoolNames : ParallelSpherizer_get(name)
  \/ wait_call
  \/ wait_return
  \/ \E i \in 1 .. Len(futures) : Start(i)
  \/ \E i \in 1 .. Len(futures) : Finish(i, <<P1>>)
  \/ \E i \in 1 .. Len(futures) : Fail(i)

SpecQueue == Init /\ [][NextQueue]_vars

\* Every operation that reaches the cache, one after another: direct adds,
\* reads, and one task requested and resolved.
EntryKeys == {<<"m1", 8>>, <<"m2", 8>>}
NextEntries ==
  \/ \E c \in EntryKeys, depth \in Depths, s \in StoreValues :
       (c \in PutKeys \/ depth = 0) /\ Put(c[1], c[2], depth, s)
  \/ \E c \in EntryKeys : contains(c[1], c[2], 0)
  \/ \E c \in EntryKeys : db_get(c[1], c[2], 0)
  \/ \E c \in PutKeys, depth \in Depths :
       Len(futures) = 0 /\ spherize_mesh(c[1], c[2], depth)
  \/ \E c \in PutKeys, depth \in Depths, cache \in BOOLEAN :
       get_spherization(c[1], depth, c[2], cache)
  \/ \E i \in 1 .. Len(futures) : Start(i)
  \/ \E i \in 1 .. Len(futures), levels \in EngineOutputs : Finish(i, levels)

SpecEntries == Init /\ [][NextEntries]_vars

\* One shape and one branch, requested again at depths not cached yet: a
\* key can be cached while a later task of the name runs or has failed.
NextFrame ==
  \/ \E c \in PutKeys, depth \in Depths : spherize_mesh(c[1], c[2], depth)
  \/ \E c \in PutKeys, depth \in Depths, cache \in BOOLEAN :
       get_spherization(c[1], depth, c[2], cache)
  \/ \E i \in 1 .. Len(futures) : Start(i)
  \/ \E i \in 1 .. Len(futures), levels \in EngineOutputs : Finish(i, levels)
  \/ \E i \in 1 .. Len(futures) : Fail(i)

SpecFrame == Init /\ [][NextFrame]_vars

\* One name submitted over and over, with fair scheduling: an idle pool
\* thread takes the oldest queued item, a running task ends by returning or
\* raising, and a thread blocked in wait returns once it can.
NextLive ==
  \/ submit("m1", 8)
  \/ ParallelSpherizer_get("m1")
  \/ wait_call
  \/ wait_return
  \/ \E i \in 1 .. Len(futures) : Start(i)
  \/ \E i \in 1 .. Len(futures) : Finish(i, <<P1>>)
  \/ \E i \in 1 .. Len(futures) : Fail(i)

QueueSlots == 1 .. (Threads + MaxQueued)
FairQueue ==
  /\ \A i \in QueueSlots : WF_vars(i <= Len(futures) /\ Start(i))
  /\ \A i \in QueueSlots :
       WF_vars(i <= Len(futures) /\ (Finish(i, <<P1>>) \/ Fail(i)))
  /\ WF_vars(wait_return)

SpecLive == Init /\ [][NextLive]_vars /\ FairQueue

(* ------------------------------ claims -------------------------------- *)
Stored(k) == get(db, k[1], k[2], k[3])

\* C1 (monotonic best-of): for every key, the value stored after any adds on
\* that key is one of the values added and none of the values added is
\* strictly better than it under the order on (mean_error, worst_error).
C1_MonotonicBestOf ==
  \A k \in DOMAIN puts :
    /\ exists(db, k[1], k[2], k[3])
    /\ Stored(k) \in puts[k]
    /\ \A a \in puts[k] : ~lt(a, Stored(k))

\* three different values were added on one key, the last add was of a value
\* strictly worse than the stored one, and another added value ties with the
\* stored one on mean_error and loses on worst_error
C1_Witness ==
  /\ op.kind = "put"
  /\ LET k == <<op.name, op.branch, op.depth>>
     IN  /\ Cardinality(puts[k]) = 3
         /\ lt(Stored(k), op.ret[1])
         /\ \E a \in puts[k] : /\ a.mean_error = Stored(k).mean_error
                                /\ a.worst_error > Stored(k).worst_error

\* C2 (idempotent insertion): after add(k, a) a second add(k, a) leaves the
\* whole cache as the first left it, and an add of a value that is not
\* strictly better than the one stored for its key leaves the whole cache
\* unchanged.
C2_IdempotentPut ==
  [][op'.kind = "put" =>
       LET mesh == op'.name
           branch == op'.branch
           depth == op'.depth
           a == op'.ret[1]
       IN  /\ add(db', mesh, branch, depth, a) = db'
           /\ (exists(db, mesh, branch, depth) /\ ~lt(a, get(db, mesh, branch, depth)))
                => db' = db]_vars

\* the last add was of a value that ties with the stored one without being
\* it, and the stored one was kept
C2_Witness ==
  /\ op.kind = "put"
  /\ LET k == <<op.name, op.branch, op.depth>>
     IN  /\ Stored(k) # op.ret[1]
         /\ ~lt(Stored(k), op.ret[1])
         /\ ~lt(op.ret[1], Stored(k))

\* the levels the future now tracked under name returned
ResultOf(name) == futures[waiting[name]].result

\* the level the uncached policy names: the largest index at or below
\* min(depth, len - 1) with spheres, else min(depth, len - 1) itself
UncachedChoice(levels, depth) ==
  LET top == Min(depth, Len(levels) - 1)
      nonempty == {i \in 0 .. top : levels[i + 1].spheres # << >>}
  IN  IF nonempty # {} THEN MaxOf(nonempty) ELSE top

\* C4 (uncached level selection): a resolve served by the dispatcher from a
\* non-empty list of levels returns the level at the largest index
\* i <= min(depth, len - 1) that has spheres, and the level at
\* min(depth, len - 1) when there is none.
C4_UncachedSelection ==
  (/\ op.kind = "resolve"
   /\ op.path = "dispatch"
   /\ op.name \in DOMAIN waiting
   /\ futures[waiting[op.name]].state = "done"
   /\ Len(ResultOf(op.name)) > 0)
  => /\ op.status = "ok"
     /\ op.ret = <<ResultOf(op.name)[UncachedChoice(ResultOf(op.name), op.depth) + 1]>>

\* depth 2 was asked of two levels, the finer of them empty: the coarser one
\* was returned
C4_Witness ==
  /\ op.kind = "resolve"
  /\ op.path = "dispatch"
  /\ op.depth = 2
  /\ op.name \in DOMAIN waiting
  /\ Len(ResultOf(op.name)) = 2
  /\ ResultOf(op.name)[2].spheres = << >>
  /\ ResultOf(op.name)[1].spheres # << >>
  /\ op.ret = <<ResultOf(op.name)[1]>>
  /\ ResultOf(op.name)[1] # ResultOf(op.name)[2]

\* what the cached policy names: the entry at the largest cached level at or
\* below depth with spheres, else the entry at depth, else NotFound
CachedChoice(d, name, branch, depth) ==
  LET nonempty == {l \in 0 .. depth : /\ exists(d, name, branch, l)
                                      /\ get(d, name, branch, l).spheres # << >>}
  IN  IF nonempty # {} THEN Ok(get(d, name, branch, MaxOf(nonempty)))
      ELSE IF exists(d, name, branch, depth) THEN Ok(get(d, name, branch, depth))
      ELSE Raise("NotFound")

\* C5 (cached level selection): a resolve that finds the key cached returns
\* the entry at the largest level at or below the requested one that is
\* cached with spheres, levels without an entry being skipped, and the entry
\* of the requested level when there is none; _select_cached_level raises
\* NotFound only when, besides, the requested level has no entry.
C5_CachedSelection ==
  /\ (op.kind = "resolve" /\ op.path = "cache")
      => /\ op.status = "ok"
         /\ op.ret = CachedChoice(db, op.name, op.branch, op.depth).ret
  /\ \A c \in PutKeys, depth \in Depths :
       _select_cached_level(db, c[1], c[2], depth) = CachedChoice(db, c[1], c[2], depth)

\* level 2 is cached empty, level 1 has no entry, level 0 is cached with
\* spheres: a resolve of level 2 returned the entry of level 0
C5_Witness ==
  /\ op.kind = "resolve"
  /\ op.path = "cache"
  /\ op.depth = 2
  /\ get(db, op.name, op.branch, 2).spheres = << >>
  /\ ~exists(db, op.name, op.branch, 1)
  /\ exists(db, op.name, op.branch, 0)
  /\ op.ret = <<get(db, op.name, op.branch, 0)>>
  /\ op.ret[1].spheres # << >>

\* a resolve with use_cache that the dispatcher served, after which the cache
\* holds the levels of that result and nothing else (it was empty before)
CachedFromEmpty ==
  /\ op.kind = "resolve"
  /\ op.path = "dispatch"
  /\ op.cache
  /\ op.name \in DOMAIN waiting
  /\ futures[waiting[op.name]].state = "done"
  /\ db = add_levels(EmptyDict, op.name, op.branch, ResultOf(op.name),
                     Len(ResultOf(op.name)))

\* the next call is a resolve of the same arguments
SameResolveAgain ==
  /\ op'.kind = "resolve"
  /\ op'.name = op.name
  /\ op'.branch = op.branch
  /\ op'.depth = op.depth
  /\ op'.cache

\* the levels are [L0 (empty), L1 (non-empty), L2 (non-empty)]
IsL0L1L2(levels) ==
  /\ Len(levels) = 3
  /\ levels[1].spheres = << >>
  /\ levels[2].spheres # << >>
  /\ levels[3].spheres # << >>

\* C6 (cached and uncached paths agree): from an empty cache, a resolve with
\* use_cache served by the dispatcher and the resolve of the same arguments
\* that follows it return the same thing; with levels [L0 (empty), L1, L2]
\* both return L2 for level 2 and L0 for level 0, the second from the cache.
C6_PathsAgree ==
  [][(CachedFromEmpty /\ SameResolveAgain) =>
       /\ op'.status = op.status
       /\ op'.ret = op.ret
       /\ IsL0L1L2(ResultOf(op.name)) =>
            /\ op'.path = "cache"
            /\ op.depth = 2 => op'.ret = <<ResultOf(op.name)[3]>>
            /\ op.depth = 0 => op'.ret = <<ResultOf(op.name)[1]>>]_vars

\* with levels [L0 (empty), L1, L2] cached by an earlier resolve, a resolve
\* of level 0 was served from the cache and returned L0
C6_Witness ==
  /\ op.kind = "resolve"
  /\ op.path = "cache"
  /\ op.cache
  /\ op.depth = 0
  /\ IsL0L1L2(ResultOf(op.name))
  /\ op.ret = <<ResultOf(op.name)[1]>>
  /\ db = add_levels(EmptyDict, op.name, op.branch, ResultOf(op.name), 3)

\* the scenario of C7: branch 8, the engine returned [A0 (empty), A1 (one
\* sphere)], resolve(level 1, use_cache) was served by the dispatcher from an
\* empty cache, and the next call is resolve(level 0, use_cache)
C7_Scenario ==
  /\ CachedFromEmpty
  /\ op.branch = 8
  /\ op.depth = 1
  /\ Len(ResultOf(op.name)) = 2
  /\ ResultOf(op.name)[1].spheres = << >>
  /\ ResultOf(op.name)[2].spheres = <<"p">>
  /\ op'.kind = "resolve"
  /\ op'.name = op.name
  /\ op'.branch = 8
  /\ op'.depth = 0
  /\ op'.cache

\* C7 as stated: the first resolve returns A1 and the cache-backed resolve of
\* level 0 returns A1 too.
C7_AsStated ==
  [][C7_Scenario =>
       /\ op.ret = <<ResultOf(op.name)[2]>>
       /\ op'.path = "cache"
       /\ op'.ret = <<ResultOf(op.name)[2]>>]_vars

\* C7 (amended): the first resolve returns A1 and the cache-backed resolve of
\* level 0 returns A0, the entry of level 0 itself, no level below it having
\* spheres.
C7_Amended ==
  [][C7_Scenario =>
       /\ op.ret = <<ResultOf(op.name)[2]>>
       /\ op'.path = "cache"
       /\ op'.status = "ok"
       /\ op'.ret = <<ResultOf(op.name)[1]>>]_vars

\* the cache-backed resolve of level 0 happened: with [A0 (empty), A1] cached
\* under branch 8 it returned A0
C7_Witness ==
  /\ op.kind = "resolve"
  /\ op.path = "cache"
  /\ op.cache
  /\ op.branch = 8
  /\ op.depth = 0
  /\ Len(ResultOf(op.name)) = 2
  /\ ResultOf(op.name)[1].spheres = << >>
  /\ ResultOf(op.name)[2].spheres = <<"p">>
  /\ exists(db, op.name, 8, 1)
  /\ op.ret = <<get(db, op.name, 8, 0)>>
  /\ op.ret = <<ResultOf(op.name)[1]>>

\* C8 (request frame): a request whose key is cached submits nothing and
\* leaves the table of futures, the executor's work and the cache as they
\* were; a request whose key is not cached submits exactly one task, named
\* by the shape, and tracks it under that name.
C8_RequestFrame ==
  [][op'.kind = "request" =>
       IF exists(db, op'.name, op'.branch, op'.depth)
       THEN /\ op'.fut = 0
            /\ UNCHANGED <<db, waiting, futures>>
       ELSE /\ Len(futures') = Len(futures) + 1
            /\ SubSeq(futures', 1, Len(futures)) = futures
            /\ futures'[Len(futures')] = Future(op'.name, op'.branch)
            /\ op'.fut = Len(futures')
            /\ waiting'[op'.name] = Len(futures')
            /\ \A n \in DOMAIN waiting \ {op'.name} : waiting'[n] = waiting[n]
            /\ db' = db]_vars

\* a request of a cached key was made while another level of the same shape
\* and branch was not cached
C8_Witness ==
  /\ op.kind = "request"
  /\ op.fut = 0
  /\ exists(db, op.name, op.branch, op.depth)
  /\ \E depth \in Depths : ~exists(db, op.name, op.branch, depth)

\* C3 (single flight per name): no two tasks of one name are in the engine
\* at the same time.
C3_SingleFlight ==
  \A name \in Meshes :
    Cardinality({i \in Running : futures[i].name = name}) <= 1

\* C9 (once per pair): the task of a (shape, branch) pair is submitted at
\* most once.
C9_OncePerPair ==
  \A name \in Meshes, branch \in Branches :
    Cardinality({i \in 1 .. Len(futures) :
                   futures[i].name = name /\ futures[i].branch = branch}) <= 1

\* C10 (every level cached): a resolve with use_cache that the dispatcher
\* serves from n >= 1 levels leaves, for each i < n, an entry at level i that
\* is the better of the one stored before and level i of the result; no
\* entry ever disappears; and a resolve whose key has an entry is served
\* from the cache.
C10_AllLevelsCached ==
  [][/\ (/\ op'.kind = "resolve"
         /\ op'.path = "dispatch"
         /\ op'.cache
         /\ op'.status \notin {"UnknownTask", "ComputationFailure"}
         /\ Len(ResultOf(op'.name)) >= 1)
        => \A i \in 0 .. Len(ResultOf(op'.name)) - 1 :
             LET new == ResultOf(op'.name)[i + 1]
                 name == op'.name
                 branch == op'.branch
             IN  /\ exists(db', name, branch, i)
                 /\ get(db', name, branch, i) =
                      IF exists(db, name, branch, i) /\ ~lt(new, get(db, name, branch, i))
                      THEN get(db, name, branch, i)
                      ELSE new
     /\ \A c \in Calls, depth \in 0 .. MaxLevels :
          exists(db, c[1], c[2], depth) => exists(db', c[1], c[2], depth)
     /\ (op'.kind = "resolve" /\ exists(db, op'.name, op'.branch, op'.depth))
        => op'.path = "cache"]_vars

\* a second result for the same shape and branch was cached over the first:
\* level 0 was replaced by the better new level, level 1 kept the better old
\* one, level 2 is new
C10_Witness ==
  /\ op.kind = "resolve"
  /\ op.path = "dispatch"
  /\ op.cache
  /\ op.status = "ok"
  /\ Len(ResultOf(op.name)) = 3
  /\ get(db, op.name, op.branch, 0) = ResultOf(op.name)[1]
  /\ Cardinality(puts[<<op.name, op.branch, 0>>]) = 2
  /\ get(db, op.name, op.branch, 1) # ResultOf(op.name)[2]
  /\ Cardinality(puts[<<op.name, op.branch, 2>>]) = 1

\* C11 (linearizable put): when several threads run add on the same key with
\* no lock, then once every one of them has left add the key holds one of
\* the values put, and none of the values put is strictly better than it.
C11_LinearizablePut ==
  ((\A t \in Adders : adders[t].pc = "out") /\ AddKey \in DOMAIN puts)
    => /\ exists(db, AddKey[1], AddKey[2], AddKey[3])
       /\ Stored(AddKey) \in puts[AddKey]
       /\ \A s \in puts[AddKey] : ~lt(s, Stored(AddKey))

\* the collaborators the task body has invoked so far, in order
CallNames == [i \in DOMAIN task.calls |-> task.calls[i][1]]
EngineCalls == {i \in DOMAIN task.calls : task.calls[i][1] = "engine"}
PassCalls == {i \in DOMAIN task.calls : task.calls[i][1] \in {"repair", "decomposition"}}
CheckCalls == {i \in DOMAIN task.calls : task.calls[i][1] = "check"}

\* the two suitability checks said unsuitable and the first engine call
\* returned
TwiceUnsuitableThenEngine ==
  /\ Cardinality(CheckCalls) = 2
  /\ \A i \in CheckCalls : task.calls[i][2] = FALSE
  /\ EngineCalls # {}
  /\ \A i \in EngineCalls : task.calls[i][2] = "ok"

\* C12 (fallback chain): when both suitability checks report the mesh
\* unsuitable and the engine call then succeeds, the collaborators were
\* invoked in the order check, repair, check, decomposition, engine, each
\* pass exactly once, and the task returns what the engine returned; when
\* the first check reports suitable, no repair and no decomposition is
\* invoked before the first engine call.
C12_FallbackChain ==
  /\ TwiceUnsuitableThenEngine
       => /\ CallNames = <<"check", "repair", "check", "decomposition", "engine">>
          /\ task.pc = "end" => task.status = "ok" /\ task.result = task.spheres
  /\ (task.calls # << >> /\ task.calls[1] = <<"check", TRUE>>)
       => \A i \in PassCalls : \E j \in EngineCalls : j < i

C12_Witness ==
  /\ task.pc = "end"
  /\ TwiceUnsuitableThenEngine
  /\ task.status = "ok"
  /\ Len(task.result) = 2

RepairCalls == {i \in DOMAIN task.calls : task.calls[i][1] = "repair"}
DecompositionCalls == {i \in DOMAIN task.calls : task.calls[i][1] = "decomposition"}
\* the calls made after the first engine call
AfterFirstEngine ==
  LET first == CHOOSE i \in EngineCalls : \A j \in EngineCalls : i <= j
  IN  [i \in 1 .. Len(task.calls) - first |-> task.calls[first + i]]

\* C13 (bounded retry): in one run of the task body past line 73, the engine
\* is invoked at most twice, the repair pass at most twice and the
\* decomposition pass at most once; when the first engine call raises, the
\* repair pass and then the engine are invoked once more, and the task
\* fails with ComputationFailure when either of these raises; and the task
\* ends either with a result or with ComputationFailure.
C13_BoundedRetry ==
  /\ Cardinality(EngineCalls) <= 2
  /\ Cardinality(RepairCalls) <= 2
  /\ Cardinality(DecompositionCalls) <= 1
  /\ (task.pc = "end" /\ \E i \in EngineCalls : task.calls[i][2] = "raise")
       => \/ /\ AfterFirstEngine = <<(<<"repair", "ok">>), (<<"engine", "ok">>)>>
             /\ task.status = "ok"
          \/ /\ AfterFirstEngine \in {<<(<<"repair", "raise">>)>>,
                                       <<(<<"repair", "ok">>), (<<"engine", "raise">>)>>}
             /\ task.status = "ComputationFailure"
  /\ (task.pc = "end" /\ task.calls # << >>)
       => task.status \in {"ok", "ComputationFailure"}

\* the future the table holds for a name
Tracked(name) == name \in DOMAIN waiting
TaskOf(name) == futures[waiting[name]]
FailedShape(name) == Tracked(name) /\ TaskOf(name).state = "failed"
DoneShape(name) == Tracked(name) /\ TaskOf(name).state = "done"
\* d and e hold the same entries for every shape but name
SameButFor(d, e, name) ==
  /\ DOMAIN d \ {name} = DOMAIN e \ {name}
  /\ \A m \in DOMAIN d \ {name} : d[m] = e[m]

\* C14 (failure isolation): when the task of a shape has failed, resolve on
\* an uncached key of that shape and result for that shape raise
\* ComputationFailure and resolve leaves the cache as it was; while another
\* shape's task has failed, resolve and result for a shape whose own task
\* is done are not blocked, yield what that shape's own task returned, and
\* resolve changes no other shape's cache entries.
C14_FailureIsolation ==
  [][ /\ (op'.kind = "resolve" /\ FailedShape(op'.name)
            /\ ~exists(db, op'.name, op'.branch, op'.depth))
          => op'.status = "ComputationFailure" /\ db' = db
      /\ (op'.kind = "result" /\ FailedShape(op'.name))
          => op'.status = "ComputationFailure"
      /\ (\E s \in DOMAIN waiting : FailedShape(s))
          => /\ \A n \in DOMAIN waiting :
                  DoneShape(n) => /\ ENABLED ParallelSpherizer_get(n)
                                  /\ ENABLED get_spherization(n, 0, 8, TRUE)
             /\ (op'.kind = "resolve" /\ op'.path = "dispatch" /\ DoneShape(op'.name))
                  => /\ [status |-> op'.status, ret |-> op'.ret]
                          = _select_level(TaskOf(op'.name).result, op'.depth)
                     /\ SameButFor(db, db', op'.name)
             /\ (op'.kind = "result" /\ DoneShape(op'.name))
                  => op'.status = "ok" /\ op'.ret = TaskOf(op'.name).result
    ]_vars

C14_Witness ==
  /\ FailedShape("m1")
  /\ "m1" \notin DOMAIN db
  /\ op.kind = "resolve" /\ op.name = "m2" /\ op.path = "dispatch" /\ op.status = "ok"
  /\ exists(db, "m2", 8, 1)

\* C15 (EmptyResult): a resolve that reaches a finished task whose list has
\* zero levels raises EmptyResult, with or without caching, and leaves
\* the cache as it was; when the list has levels and none of them has
\* spheres, it raises nothing and returns the level at the requested depth,
\* capped at the last one.
C15_EmptyResult ==
  [][ (op'.kind = "resolve" /\ op'.path = "dispatch" /\ DoneShape(op'.name))
        => LET levels == TaskOf(op'.name).result
           IN  /\ Len(levels) = 0 => op'.status = "EmptyResult" /\ db' = db
               /\ (Len(levels) > 0 /\ \A l \in 1 .. Len(levels) : levels[l].spheres = << >>)
                    => /\ op'.status = "ok"
                       /\ op'.ret = <<levels[Min(op'.depth, Len(levels) - 1) + 1]>>
    ]_vars

C15_Witness ==
  /\ op.kind = "resolve" /\ op.path = "dispatch" /\ op.cache
  /\ DoneShape(op.name) /\ TaskOf(op.name).result = << >>
  /\ op.status = "EmptyResult"
  /\ db = EmptyDict

NeverSubmitted(name) == \A i \in 1 .. Len(futures) : futures[i].name # name

\* C16 (UnknownTask): result for a name that was never submitted, and
\* resolve on an uncached key of such a name, raise UnknownTask and leave
\* the table of futures, the futures and the cache as they were; result
\* for a submitted name is blocked while the future the table holds for it
\* is not complete, and then returns the list that task returned or raises
\* its failure.
C16_UnknownTask ==
  [][ /\ (op'.kind = "result" /\ NeverSubmitted(op'.name))
          => op'.status = "UnknownTask" /\ UNCHANGED <<waiting, futures, db>>
      /\ (op'.kind = "resolve" /\ NeverSubmitted(op'.name)
            /\ ~exists(db, op'.name, op'.branch, op'.depth))
          => op'.status = "UnknownTask" /\ UNCHANGED <<waiting, futures, db>>
      /\ (op'.kind = "result" /\ ~NeverSubmitted(op'.name))
          => /\ Tracked(op'.name)
             /\ TaskOf(op'.name).state \in {"done", "failed"}
             /\ TaskOf(op'.name).state = "done"
                  => op'.status = "ok" /\ op'.ret = TaskOf(op'.name).result
             /\ TaskOf(op'.name).state = "failed" => op'.status = "ComputationFailure"
      /\ \A n \in DOMAIN waiting :
            TaskOf(n).state \in {"queued", "running"} => ~ENABLED ParallelSpherizer_get(n)
    ]_vars

C16_Witness ==
  /\ op.kind = "result" /\ op.name = "m2" /\ op.status = "UnknownTask"
  /\ NeverSubmitted("m2")
  /\ DoneShape("m1")

Complete(i) == futures[i].state \in {"done", "failed"}
TrackedFutures == {waiting[n] : n \in DOMAIN waiting}

\* C17 (await_all): wait takes the futures the table holds when it is
\* called; it returns exactly when each of these is complete, by success or
\* by failure, raises nothing when some of them failed, and neither the call
\* nor the return changes the table or the futures.
C17_AwaitAll ==
  [][ /\ op'.kind = "await_call"
          => waiter'.fs = TrackedFutures /\ UNCHANGED <<waiting, futures, db>>
      /\ op'.kind = "await"
          => /\ \A i \in waiter.fs : Complete(i)
             /\ op'.status = "ok"
             /\ UNCHANGED <<waiting, futures, db>>
      /\ waiter.pc = "waiting"
          => (ENABLED wait_return <=> \A i \in waiter.fs : Complete(i))
    ]_vars

C17_Witness ==
  /\ op.kind = "await"
  /\ waiting = [n \in PoolNames |-> IF n = "m1" THEN 1 ELSE 2]
  /\ futures[1].state = "failed"
  /\ futures[2].state = "done"

\* the latest future submitted under a name
Newest(name) ==
  MaxOf({i \in 1 .. Len(futures) : futures[i].name = name})

\* C18 (table replacement): the table holds, for each name ever submitted,
\* exactly the latest future submitted under it.  A submit under a name
\* already in the table puts the new future in its place and leaves every
\* earlier future as it was (not cancelled, not waited for), the replaced
\* one being out of the table from then on; result yields the outcome of the
\* latest future of the name; wait takes only the futures of the table, so
\* not the replaced ones.
C18_TableReplacement ==
  [][ /\ DOMAIN waiting = {futures[i].name : i \in 1 .. Len(futures)}
      /\ \A n \in DOMAIN waiting : waiting[n] = Newest(n)
      /\ (op'.kind = "request" /\ op'.fut # 0)
          => /\ op'.fut = Len(futures) + 1
             /\ waiting'[op'.name] = op'.fut
             /\ futures'[op'.fut].name = op'.name
             /\ \A i \in 1 .. Len(futures) : futures'[i] = futures[i]
             /\ \A n \in DOMAIN waiting \ {op'.name} : waiting'[n] = waiting[n]
             /\ Tracked(op'.name) => waiting[op'.name] \notin {waiting'[n] : n \in DOMAIN waiting'}
      /\ (op'.kind = "result" /\ Tracked(op'.name))
          => /\ op'.fut = Newest(op'.name)
             /\ op'.ret = futures[Newest(op'.name)].result
             /\ op'.status = IF futures[Newest(op'.name)].state = "failed"
                              THEN "ComputationFailure" ELSE "ok"
      /\ op'.kind = "await_call"
          => waiter'.fs = {Newest(n) : n \in {futures[i].name : i \in 1 .. Len(futures)}}
    ]_vars

\* result has returned the second future's list while the first future of
\* the same name, replaced in the table, is still running
C18_Witness ==
  /\ Len(futures) = 2
  /\ futures[1].name = "m1" /\ futures[2].name = "m1"
  /\ futures[1].state = "running"
  /\ op.kind = "result" /\ op.name = "m1" /\ op.fut = 2 /\ op.status = "ok"

\* C19 (flush exactly once): nothing is written while the program runs, and
\* once the program has ended, on whichever exit path, the file has been
\* written exactly once and holds the whole final mapping.
C19_FlushExactlyOnce ==
  /\ process.phase = "running" => process.written = 0
  /\ process.phase = "exited"
       => process.written = 1 /\ process.file = jsdumps(db)

C21_WorkerBound ==
  [][ /\ Cardinality(Running) <= Threads
      /\ (Cardinality(Running) = Threads /\ Len(futures) < Threads + MaxQueued)
          => ENABLED submit("m1", 8)
      /\ op'.kind = "submit"
          => /\ waiting'[op'.name] = op'.fut
             /\ futures'[op'.fut].state = "queued"
             /\ \A i \in 1 .. Len(futures) : futures'[i] = futures[i]
      /\ \A i \in 1 .. Len(futures) :
            (futures[i].state = "queued" /\ futures'[i].state # "queued")
              => /\ futures'[i].state = "running"
                 /\ Cardinality(Running) < Threads
                 /\ \A j \in 1 .. i - 1 : futures[j].state # "queued"
    ]_vars

\* a submit was made with every worker busy: its item is queued behind them
C21_Witness ==
  /\ op.kind = "submit" /\ op.fut = Threads + 1
  /\ Cardinality(Running) = Threads
  /\ futures[op.fut].state = "queued"
  /\ waiting[op.name] = op.fut

\* the keys (mesh, branch, depth) that hold an entry
KeysOf(d) ==
  UNION {UNION {{<<m, b, k>> : k \in DOMAIN d[m][b]} : b \in DOMAIN d[m]} : m \in DOMAIN d}

\* C22 (entry lifecycle): over calls of add, get, exists, request and
\* resolve made one after another, a key that holds an entry holds one
\* after every step, that entry is a single Spherization, it changes only
\* to a strictly better one, and an add on one key leaves the entries of all
\* other keys, and the set of other keys, as they were.
C22_EntryLifecycle ==
  [][ /\ \A k \in KeysOf(db) :
            /\ exists(db', k[1], k[2], k[3])
            /\ get(db', k[1], k[2], k[3]) \in Spherizations
            /\ get(db', k[1], k[2], k[3]) # Stored(k)
                 => lt(get(db', k[1], k[2], k[3]), Stored(k))
      /\ op'.kind = "put"
          => \A k \in KeysOf(db') \ {<<op'.name, op'.branch, op'.depth>>} :
                k \in KeysOf(db) /\ get(db', k[1], k[2], k[3]) = Stored(k)
      /\ op'.kind \in {"contains", "get", "request"} => db' = db
    ]_vars

\* an add has just replaced the entry of one key by a better value while
\* another shape holds an entry too
C22_Witness ==
  /\ op.kind = "put"
  /\ Cardinality(puts[<<op.name, op.branch, op.depth>>]) = 2
  /\ Stored(<<op.name, op.branch, op.depth>>) = op.ret[1]
  /\ Cardinality(DOMAIN db) = 2

\* a finished task of this shape that ran with this branch factor yielded
\* the Spherization s as its level of this depth
ProducedBy(name, branch, depth, s) ==
  \E i \in 1 .. Len(futures) :
    /\ futures[i].name = name /\ futures[i].branch = branch
    /\ futures[i].state = "done"
    /\ depth + 1 \in DOMAIN futures[i].result
    /\ futures[i].result[depth + 1] = s

\* C23 (branch-factor provenance): every entry that a resolve writes under
\* (shape, branch, level), and every Spherization that a resolve with that
\* branch returns from a task, is a level of a task of that shape that ran
\* with that branch.
C23_BranchProvenance ==
  [][ op'.kind = "resolve"
        => /\ \A k \in KeysOf(db') :
                (k \notin KeysOf(db) \/ get(db', k[1], k[2], k[3]) # Stored(k))
                  => ProducedBy(k[1], k[2], k[3], get(db', k[1], k[2], k[3]))
           /\ (op'.path = "dispatch" /\ op'.status = "ok")
                => \E depth \in 0 .. op'.depth :
                     ProducedBy(op'.name, op'.branch, depth, op'.ret[1])
    ]_vars

\* C24 (resolve frame): a resolve changes the cache only when it reaches a
\* task and caching is on; served from the cache, or with caching off, it
\* leaves the cache as it was; it never changes the table of futures nor
\* the futures; and it is served from the cache exactly when the key is
\* cached, in which case it is not blocked by the task of that name, be it
\* queued, running or failed.
C24_ResolveFrame ==
  [][ /\ op'.kind = "resolve"
          => /\ UNCHANGED <<waiting, futures>>
             /\ (op'.path = "cache") = exists(db, op'.name, op'.branch, op'.depth)
             /\ (op'.path = "cache" \/ ~op'.cache) => db' = db
             /\ db' # db => (op'.path = "dispatch" /\ op'.cache)
      /\ \A c \in PutKeys, depth \in Depths :
            (exists(db, c[1], c[2], depth) /\ Tracked(c[1])
               /\ TaskOf(c[1]).state \in {"queued", "running", "failed"})
              => ENABLED get_spherization(c[1], depth, c[2], TRUE)
    ]_vars

\* a resolve was served from the cache while the task the table holds for
\* that name was still running
C24_Witness ==
  /\ op.kind = "resolve" /\ op.path = "cache" /\ op.status = "ok"
  /\ Tracked(op.name) /\ TaskOf(op.name).state = "running"

Completed(i) == i <= Len(futures) /\ Complete(i)

\* C25 (completion): with fair pool threads and tasks that end, every future
\* submitted is eventually complete, also one queued while every worker was
\* busy and one that a later submit of its name put out of the table; so a
\* thread inside wait eventually returns, and for every name in the table
\* result, and resolve on that name, eventually stop being blocked.
C25_Completion ==
  /\ \A i \in QueueSlots : (i <= Len(futures)) ~> Completed(i)
  /\ (waiter.pc = "waiting") ~> (waiter.pc = "out")
  /\ Tracked("m1") ~> (ENABLED ParallelSpherizer_get("m1")
                         /\ ENABLED get_spherization("m1", 0, 8, TRUE))

\* every slot was used, one name was submitted twice, and all the futures,
\* the replaced one too, are complete when wait returns
C25_Witness ==
  /\ Len(futures) = Threads + MaxQueued
  /\ \A i \in QueueSlots : Completed(i)
  /\ \E i \in QueueSlots : i \notin TrackedFutures
  /\ op.kind = "await"

====
